---- MODULE Spec2Model ----
(***************************************************************************)
(* ourairports-json: one run of the converter (src/main.rs) over one CSV   *)
(* table of one record kind (src/ourairports.rs).                          *)
(*                                                                         *)
(* Text is a sequence of one-character strings.  A table is a header       *)
(* record (column names) followed by data records (fields).  The csv       *)
(* reader is the default one (headers on, not flexible) and records are    *)
(* decoded by the serde-derived struct visitors, so columns are matched to *)
(* struct fields by header name.                                           *)
(***************************************************************************)
EXTENDS Integers, Sequences, FiniteSets, TLC

\* ------------------------------------------------------------------ bounds

\* Most data rows in a table.
MaxRows == 2
\* Longest token tried in a boolean column (SpecBool).
MaxBoolLen == 3
\* Longest token tried in a keywords column (SpecVec).
MaxKwLen == 4

\* The model keeps an f64 as thousandths; longer fractions are cut here.
FracDigits == 3

\* -------------------------------------------------------------------- text

RECURSIVE StrOf(_, _)
\* All texts over alphabet A of length exactly n.
StrOf(A, n) ==
    IF n = 0 THEN {<<>>}
    ELSE {Append(s, c) : s \in StrOf(A, n - 1), c \in A}

StrUpTo(A, n) == UNION {StrOf(A, k) : k \in 0..n}

DigitChars == <<"0", "1", "2", "3", "4", "5", "6", "7", "8", "9">>
IsDigit(c) == \E i \in 1..10 : DigitChars[i] = c
DigitVal(c) == (CHOOSE i \in 1..10 : DigitChars[i] = c) - 1

UpperChars == <<"A", "B", "E", "N", "O", "S", "Y">>
LowerChars == <<"a", "b", "e", "n", "o", "s", "y">>

\* char::to_lowercase on the letters the model uses; other characters map
\* to themselves.
LowerChar(c) ==
    IF \E i \in 1..Len(UpperChars) : UpperChars[i] = c
    THEN LowerChars[CHOOSE i \in 1..Len(UpperChars) : UpperChars[i] = c]
    ELSE c

\* str::to_lowercase
to_lowercase(s) == [i \in 1..Len(s) |-> LowerChar(s[i])]

IsSpace(c) == c = " "

RECURSIVE TrimStart(_)
TrimStart(s) ==
    IF s # <<>> /\ IsSpace(Head(s)) THEN TrimStart(Tail(s)) ELSE s

RECURSIVE TrimEnd(_)
TrimEnd(s) ==
    IF s # <<>> /\ IsSpace(s[Len(s)])
    THEN TrimEnd(SubSeq(s, 1, Len(s) - 1))
    ELSE s

\* str::trim
trim(s) == TrimEnd(TrimStart(s))

RECURSIVE SplitFrom(_, _, _)
\* str::split(sep) continued: cur is the piece being read.
SplitFrom(s, sep, cur) ==
    IF s = <<>> THEN <<cur>>
    ELSE IF Head(s) = sep THEN <<cur>> \o SplitFrom(Tail(s), sep, <<>>)
    ELSE SplitFrom(Tail(s), sep, Append(cur, Head(s)))

\* str::split(','): always at least one piece.
split(s, sep) == SplitFrom(s, sep, <<>>)

\* ----------------------------------------------------------------- numbers

Fail == [ok |-> FALSE, v |-> 0]
Good(n) == [ok |-> TRUE, v |-> n]

RECURSIVE DigitsVal(_, _)
\* Value of a run of digits, most significant first, continuing from acc.
DigitsVal(s, acc) ==
    IF s = <<>> THEN acc ELSE DigitsVal(Tail(s), acc * 10 + DigitVal(Head(s)))

AllDigits(s) == \A i \in 1..Len(s) : IsDigit(s[i])

\* <u32 as FromStr>::from_str / <i32 as FromStr>::from_str: an optional sign
\* ("+" for both, "-" only when signed), then one digit or more.  The texts
\* of the model are a few characters long, so none is out of range.
ParseInt(s, signed) ==
    LET neg  == s # <<>> /\ Head(s) = "-"
        pos  == s # <<>> /\ Head(s) = "+"
        body == IF neg \/ pos THEN Tail(s) ELSE s
        mag  == DigitsVal(body, 0)
        val  == IF neg THEN 0 - mag ELSE mag
    IN  IF body = <<>> \/ ~AllDigits(body) THEN Fail
        ELSE IF neg /\ ~signed THEN Fail
        ELSE Good(val)

RECURSIVE Pow10(_)
Pow10(n) == IF n = 0 THEN 1 ELSE 10 * Pow10(n - 1)

DotAt(s) == IF \E i \in 1..Len(s) : s[i] = "."
            THEN CHOOSE i \in 1..Len(s) : s[i] = "." /\ \A j \in 1..(i - 1) : s[j] # "."
            ELSE 0

\* <f64 as FromStr>::from_str on exponent-free text: an optional sign, then
\* "NaN", "inf", or digits with at most one "." and a digit on one side of
\* it.  A finite value is kept as thousandths; v is unused for NaN and inf.
ParseF64(s) ==
    LET neg  == s # <<>> /\ Head(s) = "-"
        pos  == s # <<>> /\ Head(s) = "+"
        body == IF neg \/ pos THEN Tail(s) ELSE s
        d    == DotAt(body)
        ip   == IF d = 0 THEN body ELSE SubSeq(body, 1, d - 1)
        fp   == IF d = 0 THEN <<>> ELSE SubSeq(body, d + 1, Len(body))
        fcut == IF Len(fp) > FracDigits THEN SubSeq(fp, 1, FracDigits) ELSE fp
        mag  == DigitsVal(ip, 0) * Pow10(FracDigits)
                  + DigitsVal(fcut, 0) * Pow10(FracDigits - Len(fcut))
    IN  IF body = <<"N", "a", "N">> THEN [ok |-> TRUE, finite |-> FALSE, v |-> 0]
        ELSE IF body = <<"i", "n", "f">> THEN [ok |-> TRUE, finite |-> FALSE, v |-> 0]
        ELSE IF ip = <<>> /\ fp = <<>> THEN [ok |-> FALSE, finite |-> FALSE, v |-> 0]
        ELSE IF ~AllDigits(ip) \/ ~AllDigits(fp) THEN [ok |-> FALSE, finite |-> FALSE, v |-> 0]
        ELSE [ok |-> TRUE, finite |-> TRUE, v |-> IF neg THEN 0 - mag ELSE mag]

\* ------------------------------------------------------------------ values

\* A decoded field: t is the Rust type of the value held, and of s (text),
\* n (number; an f64 in thousandths), b and l (list of texts) only the one
\* that t names is meaningful.
Val(t, s, n, b, l) == [t |-> t, s |-> s, n |-> n, b |-> b, l |-> l]
StrVal(s)    == Val("String", s, 0, FALSE, <<>>)
IntVal(n)    == Val("int", <<>>, n, FALSE, <<>>)
F64Val(n)    == Val("f64", <<>>, n, FALSE, <<>>)
F64NonFinite == Val("f64_nonfinite", <<>>, 0, FALSE, <<>>)
BoolVal(b)   == Val("bool", <<>>, 0, b, <<>>)
VecVal(l)    == Val("Vec", <<>>, 0, FALSE, l)
None         == Val("None", <<>>, 0, FALSE, <<>>)

\* An error of the run.  kind: "UnequalLengths" (csv), "ParseFloat",
\* "ParseInt" (csv field parse), "InvalidValue" (de::Error::invalid_value),
\* "MissingField", "DuplicateField" (serde derive), "Io" (read_text),
\* "InvalidType" (de::Error::invalid_type, from a JSON value).
Error(kind, field, text, expected, len) ==
    [kind |-> kind, field |-> field, text |-> text, expected |-> expected, len |-> len]
NoError == Error("none", "", <<>>, 0, 0)

Ok(v)  == [ok |-> TRUE, val |-> v, err |-> NoError]
Err(e) == [ok |-> FALSE, val |-> None, err |-> e]

\* --------------------------------------------------------------- coercions

\* bool_from_str without the to_lowercase: only the lower-case texts match.
bool_from_str_exact(tok) ==
    IF tok = <<"y", "e", "s">> \/ tok = <<"1">> THEN Ok(BoolVal(TRUE))
    ELSE IF tok = <<"n", "o">> \/ tok = <<"0">> THEN Ok(BoolVal(FALSE))
    ELSE Err(Error("InvalidValue", "", tok, 0, 0))

\* bool_from_str with two more arms, "y" and "n".
bool_from_str_short(tok) ==
    LET other == to_lowercase(tok)
    IN  IF other \in {<<"y", "e", "s">>, <<"y">>, <<"1">>} THEN Ok(BoolVal(TRUE))
        ELSE IF other \in {<<"n", "o">>, <<"n">>, <<"0">>} THEN Ok(BoolVal(FALSE))
        ELSE Err(Error("InvalidValue", "", other, 0, 0))

\* Converts a string to a boolean based on "yes" and "no".
bool_from_str(tok) ==
    LET other == to_lowercase(tok)
    IN  IF other = <<"y", "e", "s">> \/ other = <<"1">> THEN Ok(BoolVal(TRUE))
        ELSE IF other = <<"n", "o">> \/ other = <<"0">> THEN Ok(BoolVal(FALSE))
        ELSE Err(Error("InvalidValue", "", other, 0, 0))

\* vec_string_from_string without the trim of each piece.
vec_string_untrimmed(keywords) ==
    IF Len(keywords) = 0 THEN Ok(VecVal(<<>>))
    ELSE Ok(VecVal(split(keywords, ",")))

\* Transforms a comma-separated string to a vector.
vec_string_from_string(keywords) ==
    IF Len(keywords) = 0 THEN Ok(VecVal(<<>>))
    ELSE LET pieces == split(keywords, ",")
         IN  Ok(VecVal([i \in 1..Len(pieces) |-> trim(pieces[i])]))

\* DecodeF64 that takes a text that is no number for NaN.
DecodeF64Lenient(tok) ==
    IF ParseF64(tok).ok /\ ParseF64(tok).finite
    THEN Ok(F64Val(ParseF64(tok).v))
    ELSE Ok(F64NonFinite)

\* A field declared f64: the csv deserializer parses the field's text.
DecodeF64(tok) ==
    LET p == ParseF64(tok)
    IN  IF ~p.ok THEN Err(Error("ParseFloat", "", tok, 0, 0))
        ELSE IF p.finite THEN Ok(F64Val(p.v))
        ELSE Ok(F64NonFinite)

\* A field declared i32 (signed) or u32, inside Some.
DecodeInt(tok, signed) ==
    LET p == ParseInt(tok, signed)
    IN  IF p.ok THEN Ok(IntVal(p.v)) ELSE Err(Error("ParseInt", "", tok, 0, 0))

\* The T of an Option<T> field, from the field's text.
DecodeSome(tok, inner) ==
    IF inner = "f64" THEN DecodeF64(tok)
    ELSE IF inner = "i32" THEN DecodeInt(tok, TRUE)
    ELSE DecodeInt(tok, FALSE)

\* DecodeOption in the manner of csv::invalid_option: a text that does not
\* decode is None as well.
DecodeOptionLenient(tok, inner) ==
    IF tok = <<>> \/ ~DecodeSome(tok, inner).ok THEN Ok(None)
    ELSE DecodeSome(tok, inner)

\* A field declared Option<T>: the csv deserializer yields None for an empty
\* field and otherwise decodes T from the field's text.
DecodeOption(tok, inner) ==
    IF tok = <<>> THEN Ok(None) ELSE DecodeSome(tok, inner)

\* One field's text to its value, by the field's declared type (or its
\* deserialize_with function).
DecodeField(rule, tok) ==
    CASE rule = "String"      -> Ok(StrVal(tok))
      [] rule = "f64"         -> DecodeF64(tok)
      [] rule = "Option<i32>" -> DecodeOption(tok, "i32")
      [] rule = "Option<u32>" -> DecodeOption(tok, "u32")
      [] rule = "Option<f64>" -> DecodeOption(tok, "f64")
      [] rule = "bool_from_str" -> bool_from_str(tok)
      [] rule = "vec_string_from_string" -> vec_string_from_string(tok)

IsOptionRule(rule) == rule \in {"Option<i32>", "Option<u32>", "Option<f64>"}

\* ----------------------------------------------------------------- schemas

\* A struct field: its serde name (the column it is read from and the key
\* it is written under) and how its text is decoded.
F(name, rule) == [name |-> name, rule |-> rule]

Airport == <<
    F("id", "String"), F("ident", "String"), F("type", "String"),
    F("name", "String"), F("latitude_deg", "f64"), F("longitude_deg", "f64"),
    F("elevation_ft", "Option<i32>"), F("continent", "String"),
    F("iso_country", "String"), F("iso_region", "String"),
    F("municipality", "String"), F("scheduled_service", "bool_from_str"),
    F("gps_code", "String"), F("iata_code", "String"),
    F("local_code", "String"), F("home_link", "String"),
    F("wikipedia_link", "String"), F("keywords", "vec_string_from_string") >>

AirportFrequency == <<
    F("id", "String"), F("airport_ref", "String"), F("airport_ident", "String"),
    F("type", "String"), F("description", "String"), F("frequency_mhz", "String") >>

Runway == <<
    F("id", "String"), F("airport_ref", "String"), F("airport_ident", "String"),
    F("length_ft", "Option<u32>"), F("width_ft", "Option<u32>"),
    F("surface", "String"), F("lighted", "bool_from_str"),
    F("closed", "bool_from_str"), F("le_ident", "String"),
    F("le_latitude_deg", "Option<f64>"), F("le_longitude_deg", "Option<f64>"),
    F("le_elevation_ft", "Option<i32>"), F("le_heading_degT", "Option<f64>"),
    F("le_displaced_threshold_ft", "Option<i32>"), F("he_ident", "String"),
    F("he_latitude_deg", "Option<f64>"), F("he_longitude_deg", "Option<f64>"),
    F("he_elevation_ft", "Option<i32>"), F("he_heading_degT", "Option<f64>"),
    F("he_displaced_threshold_ft", "Option<i32>") >>

Navaid == <<
    F("id", "String"), F("filename", "String"), F("ident", "String"),
    F("name", "String"), F("type", "String"), F("frequency_khz", "String"),
    F("latitude_deg", "Option<f64>"), F("longitude_deg", "Option<f64>"),
    F("elevation_ft", "Option<i32>"), F("iso_country", "String"),
    F("dme_frequency_khz", "String"), F("dme_channel", "String"),
    F("dme_latitude_deg", "Option<f64>"), F("dme_longitude_deg", "Option<f64>"),
    F("dme_elevation_ft", "Option<i32>"), F("slaved_variation_deg", "Option<f64>"),
    F("magnetic_variation_deg", "Option<f64>"), F("usageType", "String"),
    F("power", "String"), F("associated_airport", "String") >>

Country == <<
    F("id", "String"), F("code", "String"), F("name", "String"),
    F("continent", "String"), F("wikipedia_link", "String"),
    F("keywords", "vec_string_from_string") >>

Region == <<
    F("id", "String"), F("code", "String"), F("local_code", "String"),
    F("name", "String"), F("continent", "String"), F("iso_country", "String"),
    F("wikipedia_link", "String"), F("keywords", "vec_string_from_string") >>

\* The record kinds of the command line (enum Cli / RequestType).
RequestType ==
    {"Airport", "AirportFrequency", "Runway", "Navaid", "Country", "Region"}

Schema(kind) ==
    CASE kind = "Airport" -> Airport
      [] kind = "AirportFrequency" -> AirportFrequency
      [] kind = "Runway" -> Runway
      [] kind = "Navaid" -> Navaid
      [] kind = "Country" -> Country
      [] kind = "Region" -> Region

Arity(kind) == Len(Schema(kind))

\* Position of the field named key in the struct, or 0 for a column that is
\* no field of it.
FieldIndex(schema, key) ==
    IF \E j \in 1..Len(schema) : schema[j].name = key
    THEN CHOOSE j \in 1..Len(schema) : schema[j].name = key
    ELSE 0

\* ---------------------------------------------------------------- decoding

RowOk(rec)  == [ok |-> TRUE, rec |-> rec, err |-> NoError]
RowErr(e)   == [ok |-> FALSE, rec |-> <<>>, err |-> e]

\* The field's decoded text, with a failure named after its column.
DecodeColumn(column, r) ==
    IF r.ok THEN r ELSE Err([r.err EXCEPT !.field = column])

\* What the derived visit_map does at column i of the record: nothing for
\* a column that names no field (j = 0); an error for a second column of a
\* field already read; otherwise the field's text is decoded.
VisitField(schema, header, row, i, j) ==
    IF j = 0 THEN Ok(None)
    ELSE IF \E h \in 1..(i - 1) : header[h] = header[i]
    THEN Err(Error("DuplicateField", header[i], <<>>, 0, 0))
    ELSE DecodeColumn(header[i], DecodeField(schema[j].rule, row[i]))

VisitColumn(schema, header, row, i) ==
    VisitField(schema, header, row, i, FieldIndex(schema, header[i]))

\* The first struct field, in declaration order, among the missing ones.
FirstOf(missing) == CHOOSE j \in missing : \A k \in missing : j <= k

\* The end of the derived visit_map, every column having been read: a field
\* no column gave is None when it is an Option and a missing-field error
\* otherwise, the first such field in declaration order deciding.
FinishWith(schema, header, row, missing) ==
    IF missing # {}
    THEN RowErr(Error("MissingField", schema[FirstOf(missing)].name, <<>>, 0, 0))
    ELSE RowOk([j \in 1..Len(schema) |->
                  IF \E i \in 1..Len(header) : header[i] = schema[j].name
                  THEN DecodeField(schema[j].rule,
                           row[CHOOSE i \in 1..Len(header) :
                                    header[i] = schema[j].name]).val
                  ELSE None])

FinishStruct(schema, header, row) ==
    FinishWith(schema, header, row,
               {j \in 1..Len(schema) :
                    /\ ~IsOptionRule(schema[j].rule)
                    /\ \A i \in 1..Len(header) : header[i] # schema[j].name})

\* The visit ends at the first column, in column order, among the failing
\* ones.
VisitUpTo(schema, header, row, bad) ==
    IF bad # {}
    THEN RowErr(VisitColumn(schema, header, row, FirstOf(bad)).err)
    ELSE FinishStruct(schema, header, row)

\* VisitMap that takes no notice of the header's texts: column i is read
\* as the struct's i-th field, and a column past the last field as none.
VisitMapPositional(schema, header, row) ==
    LET names == [i \in 1..Len(header) |->
                    IF i <= Len(schema) THEN schema[i].name ELSE ""]
    IN  VisitUpTo(schema, names, row,
                  {i \in 1..Len(names) :
                        ~VisitColumn(schema, names, row, i).ok})

\* The derived visit_map over the record's (column name, field) pairs, in
\* column order: the first column that fails ends it with that error.
VisitMap(schema, header, row) ==
    VisitUpTo(schema, header, row,
              {i \in 1..Len(header) : ~VisitColumn(schema, header, row, i).ok})

\* DeserializeRecord whose reader refuses only a record shorter than the
\* header: the fields past the header's columns are left unread.
DeserializeRecordShortOnly(k, header, row) ==
    IF Len(row) < Len(header)
    THEN RowErr(Error("UnequalLengths", "", <<>>, Len(header), Len(row)))
    ELSE VisitMap(Schema(k), header, row)

\* One item of rdr.deserialize(): the reader checks the record's length
\* against the first record's (the header's), then the record is decoded.
DeserializeRecord(kind, header, row) ==
    IF Len(row) # Len(header)
    THEN RowErr(Error("UnequalLengths", "", <<>>, Len(header), Len(row)))
    ELSE VisitMap(Schema(kind), header, row)

\* ----------------------------------------------------------- serialization

RECURSIVE FormatNat(_)
\* Decimal text of a natural number.
FormatNat(n) ==
    IF n < 10 THEN <<DigitChars[n + 1]>>
    ELSE Append(FormatNat(n \div 10), DigitChars[(n % 10) + 1])

FormatInt(n) == IF n < 0 THEN <<"-">> \o FormatNat(0 - n) ELSE FormatNat(n)

RECURSIVE FracText(_, _)
\* The fraction fr, of w digits, as text without trailing zeros.
FracText(fr, w) ==
    IF w = 0 \/ fr = 0 THEN <<>>
    ELSE <<DigitChars[(fr \div Pow10(w - 1)) + 1]>>
            \o FracText(fr % Pow10(w - 1), w - 1)

\* serde_json's text of a finite f64: always with a fraction part.
FormatF64(n) ==
    LET a    == IF n < 0 THEN 0 - n ELSE n
        frac == FracText(a % Pow10(FracDigits), FracDigits)
    IN  (IF n < 0 THEN <<"-">> ELSE <<>>)
            \o FormatNat(a \div Pow10(FracDigits)) \o <<".">>
            \o (IF frac = <<>> THEN <<"0">> ELSE frac)

\* A JSON value: j is "null", "string", "number", "bool" or "array"; s is
\* the string's content or the number's text, l the array's strings.
Json(j, s, b, l) == [j |-> j, s |-> s, b |-> b, l |-> l]
JsonNull == Json("null", <<>>, FALSE, <<>>)

\* The derived Serialize of one field value.
SerializeValue(val) ==
    CASE val.t = "String" -> Json("string", val.s, FALSE, <<>>)
      [] val.t = "int" -> Json("number", FormatInt(val.n), FALSE, <<>>)
      [] val.t = "f64" -> Json("number", FormatF64(val.n), FALSE, <<>>)
      [] val.t = "f64_nonfinite" -> JsonNull
      [] val.t = "bool" -> Json("bool", <<>>, val.b, <<>>)
      [] val.t = "Vec" -> Json("array", <<>>, FALSE, val.l)
      [] val.t = "None" -> JsonNull

RECURSIVE SkipNone(_, _)
SkipNone(schema, rec) ==
    IF rec = <<>> THEN <<>>
    ELSE (IF Head(rec) = None THEN <<>>
          ELSE <<[name |-> Head(schema).name, value |-> SerializeValue(Head(rec))]>>)
         \o SkipNone(Tail(schema), Tail(rec))

\* SerializeStruct as under skip_serializing_if = "Option::is_none".
SerializeStructSkipNone(k, rec) == SkipNone(Schema(k), rec)

\* The derived Serialize of a struct: every field, in declaration order,
\* under its serde name.
SerializeStruct(kind, rec) ==
    [j \in 1..Arity(kind) |->
        [name |-> Schema(kind)[j].name, value |-> SerializeValue(rec[j])]]

Document(pretty, entries) ==
    [present |-> TRUE, pretty |-> pretty, entries |-> entries]
NoDocument == [present |-> FALSE, pretty |-> FALSE, entries |-> <<>>]

\* to_string whose pretty form leaves out the members that are null.
to_string_pretty_lossy(k, records, pretty) ==
    Document(pretty,
             [r \in 1..Len(records) |->
                IF pretty THEN SkipNone(Schema(k), records[r])
                ELSE [j \in 1..Arity(k) |->
                        [name |-> Schema(k)[j].name,
                         value |-> SerializeValue(records[r][j])]]])

\* serde_json::to_string / to_string_pretty of the record list.
to_string(kind, list, pretty) ==
    Document(pretty, [r \in 1..Len(list) |-> SerializeStruct(kind, list[r])])

\* ------------------------------------------------- reading a document back

\* The derived Deserialize of one field from a JSON value, as serde_json
\* drives it: String, f64 and Option<T> take the value of their own JSON
\* type (null is None), and the two deserialize_with functions begin with
\* String::deserialize, which takes a JSON string and refuses every other
\* value with an invalid-type error.
FromJson(rule, v) ==
    CASE rule = "String" ->
            IF v.j = "string" THEN Ok(StrVal(v.s))
            ELSE Err(Error("InvalidType", "", <<>>, 0, 0))
      [] rule = "f64" ->
            IF v.j = "number" THEN DecodeF64(v.s)
            ELSE Err(Error("InvalidType", "", <<>>, 0, 0))
      [] IsOptionRule(rule) ->
            IF v.j = "null" THEN Ok(None)
            ELSE IF v.j = "number"
            THEN DecodeSome(v.s, IF rule = "Option<i32>" THEN "i32"
                                 ELSE IF rule = "Option<u32>" THEN "u32"
                                 ELSE "f64")
            ELSE Err(Error("InvalidType", "", <<>>, 0, 0))
      [] rule = "bool_from_str" ->
            IF v.j = "string" THEN bool_from_str(v.s)
            ELSE Err(Error("InvalidType", "", <<>>, 0, 0))
      [] rule = "vec_string_from_string" ->
            IF v.j = "string" THEN vec_string_from_string(v.s)
            ELSE Err(Error("InvalidType", "", <<>>, 0, 0))

\* The derived Deserialize of a struct from one entry of a document (an
\* object holding every field once, in declaration order): the first member
\* that is refused ends it with that error, named after the member.
FromEntry(kind, entry) ==
    LET bad == {j \in 1..Len(entry) :
                    ~FromJson(Schema(kind)[j].rule, entry[j].value).ok}
    IN  IF bad # {}
        THEN RowErr([FromJson(Schema(kind)[FirstOf(bad)].rule,
                              entry[FirstOf(bad)].value).err
                        EXCEPT !.field = entry[FirstOf(bad)].name])
        ELSE RowOk([j \in 1..Len(entry) |->
                        FromJson(Schema(kind)[j].rule, entry[j].value).val])

\* A record, serialized as a single-record list, and that document's one
\* entry decoded again.
RoundTrip(kind, rec) == FromEntry(kind, to_string(kind, <<rec>>, FALSE).entries[1])

\* ------------------------------------------------------------------ inputs

Table(header, rows) == [header |-> header, rows |-> rows]
EmptyTable == Table(<<>>, <<>>)

\* The struct's own column names, in declaration order.
Columns(kind) == [j \in 1..Arity(kind) |-> Schema(kind)[j].name]

\* A well-formed field for a column of data row r: the id column holds the
\* row's number, so rows differ.
BaseField(kind, column, r) ==
    LET j    == FieldIndex(Schema(kind), column)
        rule == IF j = 0 THEN "String" ELSE Schema(kind)[j].rule
    IN  IF column = "id" THEN <<DigitChars[r + 1]>>
        ELSE CASE rule = "String" -> <<"a">>
               [] rule = "f64" -> <<"1", ".", "5">>
               [] rule = "Option<i32>" -> <<"-", "1">>
               [] rule = "Option<u32>" -> <<"1">>
               [] rule = "Option<f64>" -> <<"0", ".", "5">>
               [] rule = "bool_from_str" -> <<"y", "e", "s">>
               [] rule = "vec_string_from_string" -> <<"a", ",", "b">>

BaseRow(kind, header, r) ==
    [i \in 1..Len(header) |-> BaseField(kind, header[i], r)]

BaseRows(kind, header, n) == [r \in 1..n |-> BaseRow(kind, header, r)]

\* Field texts tried in a column.
Tokens ==
    { <<>>, <<"1">>, <<"-", "1">>, <<"1", ".", "5">>, <<"a">>,
      <<"Y", "e", "s">>, <<"n", "o">>, <<" ">>, <<"a", ",", " ", "b">>,
      <<"N", "a", "N">> }

RemoveAt(s, i) == SubSeq(s, 1, i - 1) \o SubSeq(s, i + 1, Len(s))

\* The columns whose text is decoded, and the first column.
Focus(k) == {1} \cup {j \in 1..Arity(k) : Schema(k)[j].rule # "String"}

\* The columns of a kind decoded by the given rule.
ColumnsOf(k, rule) == {j \in 1..Arity(k) : Schema(k)[j].rule = rule}

\* Header rows tried: (1) the struct's columns; (2) with one more column;
\* (3) without column c; (4) with column c and its neighbour exchanged;
\* (5) with column c twice.
HeaderForms == 1..5
HeaderOf(k, c, form) ==
    LET cols == Columns(k)
        d    == (c % Len(cols)) + 1
    IN  CASE form = 1 -> cols
          [] form = 2 -> Append(cols, "extra")
          [] form = 3 -> RemoveAt(cols, c)
          [] form = 4 -> [cols EXCEPT ![c] = cols[d], ![d] = cols[c]]
          [] form = 5 -> Append(cols, cols[c])

\* How one table is made: n rows that follow header form h (made at column
\* c), all well-formed ("base") but for row r, which is one field short
\* ("short"), one field long ("long") or holds tok in column c ("token");
\* or the empty input, which has no header ("empty").
Choice(form, c, h, n, r, tok) ==
    [form |-> form, c |-> c, h |-> h, n |-> n, r |-> r, tok |-> tok]

\* The table a choice describes.
TableOf(k, q) ==
    LET header == HeaderOf(k, q.c, q.h)
        base   == BaseRows(k, header, q.n)
    IN  CASE q.form = "empty" -> EmptyTable
          [] q.form = "base"  -> Table(header, base)
          [] q.form = "short" ->
                Table(header, [base EXCEPT ![q.r] = RemoveAt(@, Len(@))])
          [] q.form = "long"  ->
                Table(header, [base EXCEPT ![q.r] = Append(@, <<"a">>)])
          [] q.form = "token" ->
                Table(header, [base EXCEPT ![q.r][q.c] = q.tok])

\* The tables a run of kind k may be given: under every header form, rows
\* that follow the header but for at most one row of another width; and
\* under the struct's own header, one row's column c replaced by a token.
AnyChoices(k) ==
    {Choice("empty", 1, 1, 0, 0, <<>>)}
    \cup {Choice("base", c, h, n, 0, <<>>) :
            c \in Focus(k), h \in HeaderForms, n \in 0..MaxRows}
    \cup {q \in {Choice(f, c, h, n, r, <<>>) :
                    f \in {"short", "long"}, c \in Focus(k), h \in HeaderForms,
                    n \in 1..MaxRows, r \in 1..MaxRows} : q.r <= q.n}
    \cup {q \in {Choice("token", c, 1, n, r, tok) :
                    c \in Focus(k), n \in 1..MaxRows, r \in 1..MaxRows,
                    tok \in Tokens} : q.r <= q.n}

BoolAlphabet == {"y", "Y", "e", "E", "s", "S", "n", "N", "o", "O", "0", "1"}
KwAlphabet == {"a", "b", ",", " "}

\* One-row tables holding any text over alphabet A, of length up to n, in a
\* column of the given rule.
ColumnChoices(k, rule, A, n) ==
    {Choice("token", c, 1, 1, 1, tok) :
        c \in ColumnsOf(k, rule), tok \in StrUpTo(A, n)}

\* ------------------------------------------------------------------- state

VARIABLES
    kind,          \* the subcommand: the record kind of the run
    input_file,    \* TRUE: an input path was given; FALSE: download
    output_file,   \* TRUE: --output was given; FALSE: print the document
    pretty_print,  \* --pretty-print
    inputs,        \* "any", "bool" or "vec": the tables this run may be given
    file,          \* the file at the --output path
    stdout,        \* what the run has printed
    pc,            \* where the run is
    data,          \* the text read_text returned
    pos,           \* data rows the reader has yielded
    list,          \* airport_list, runway_list, ...: the records decoded
    json_out,      \* the document convert_*_data returns
    err            \* the error main returns

vars == <<kind, input_file, output_file, pretty_print, inputs, file, stdout,
          pc, data, pos, list, json_out, err>>

\* A printed item: a progress line, or the document.
Line(text) == [text |-> text, doc |-> NoDocument]
Printed(doc) == [text |-> "", doc |-> doc]

\* The file at the output path: absent, or holding what an earlier program
\* left there, or holding the document, or created or emptied by a write
\* that did not complete (it then holds at most a part of the document).
Absent == [state |-> "absent", doc |-> NoDocument]
Old == [state |-> "old", doc |-> NoDocument]
Written(doc) == [state |-> "written", doc |-> doc]
Truncated == [state |-> "truncated", doc |-> NoDocument]

\* The tables read_text may return in this run.
Choices ==
    CASE inputs = "any" -> AnyChoices(kind)
      [] inputs = "bool" ->
            ColumnChoices(kind, "bool_from_str", BoolAlphabet, MaxBoolLen)
      [] inputs = "vec" ->
            ColumnChoices(kind, "vec_string_from_string", KwAlphabet, MaxKwLen)

\* After Cli::parse(): the arguments are fixed and nothing has run.
Start ==
    /\ stdout = <<>>
    /\ pc = "read_text"
    /\ data = EmptyTable
    /\ pos = 0
    /\ list = <<>>
    /\ json_out = NoDocument
    /\ err = NoError

\* Runs of every kind over a local file (a download differs only in the
\* line read_text prints, which SpecVec covers).
Init ==
    /\ kind \in RequestType
    /\ input_file = TRUE
    /\ output_file \in BOOLEAN
    /\ pretty_print \in BOOLEAN
    /\ inputs = "any"
    /\ file \in (IF output_file THEN {Absent, Old} ELSE {Absent})
    /\ Start

\* read_text succeeds with the table found at the path or URL, and
\* convert_*_data builds its reader over the text.
ReadText ==
    /\ pc = "read_text"
    /\ \E q \in Choices : data' = TableOf(kind, q)
    /\ stdout' = stdout \o <<Line(IF input_file THEN "Reading file"
                                                ELSE "Downloading from"),
                             Line("Converting data")>>
    /\ pc' = "deserialize"
    /\ UNCHANGED <<kind, input_file, output_file, pretty_print, inputs, file,
                   pos, list, json_out, err>>

\* read_text fails: the file cannot be read, or the page cannot be fetched.
ReadTextFail ==
    /\ pc = "read_text"
    /\ stdout' = Append(stdout, Line(IF input_file THEN "Reading file"
                                                   ELSE "Downloading from"))
    /\ err' = Error("Io", "", <<>>, 0, 0)
    /\ pc' = "failed"
    /\ UNCHANGED <<kind, input_file, output_file, pretty_print, inputs, file,
                   data, pos, list, json_out>>

\* NextRecord that goes on to the next row when a row fails.
NextRecordSkip ==
    /\ pc = "deserialize"
    /\ pos < Len(data.rows)
    /\ \E line \in {DeserializeRecord(kind, data.header, data.rows[pos + 1])} :
           list' = IF line.ok THEN Append(list, line.rec) ELSE list
    /\ pos' = pos + 1
    /\ UNCHANGED <<kind, input_file, output_file, pretty_print, inputs, file,
                   stdout, pc, data, json_out, err>>

\* NextRecord that puts each record at the front of the list.
NextRecordFront ==
    /\ pc = "deserialize"
    /\ pos < Len(data.rows)
    /\ \E line \in {DeserializeRecord(kind, data.header, data.rows[pos + 1])} :
           IF line.ok
           THEN /\ list' = <<line.rec>> \o list
                /\ pos' = pos + 1
                /\ UNCHANGED <<pc, err>>
           ELSE /\ err' = line.err
                /\ pc' = "failed"
                /\ UNCHANGED <<list, pos>>
    /\ UNCHANGED <<kind, input_file, output_file, pretty_print, inputs, file,
                   stdout, data, json_out>>

\* One turn of `for line in rdr.deserialize()`: `line?` returns the error
\* from convert_*_data and from main, or the record is pushed.
NextRecord ==
    /\ pc = "deserialize"
    /\ pos < Len(data.rows)
    /\ \E line \in {DeserializeRecord(kind, data.header, data.rows[pos + 1])} :
           IF line.ok
           THEN /\ list' = Append(list, line.rec)
                /\ pos' = pos + 1
                /\ UNCHANGED <<pc, err>>
           ELSE /\ err' = line.err
                /\ pc' = "failed"
                /\ UNCHANGED <<list, pos>>
    /\ UNCHANGED <<kind, input_file, output_file, pretty_print, inputs, file,
                   stdout, data, json_out>>

\* Serialize over a map with no fixed iteration order: the members of each
\* entry come out in declaration order or in the reverse of it.
SerializeAnyOrder ==
    /\ pc = "deserialize"
    /\ pos = Len(data.rows)
    /\ \E reversed \in BOOLEAN :
         json_out' =
            Document(pretty_print,
                [r \in 1..Len(list) |->
                    [j \in 1..Arity(kind) |->
                        SerializeStruct(kind, list[r])
                            [IF reversed THEN Arity(kind) + 1 - j ELSE j]]])
    /\ pc' = "write"
    /\ UNCHANGED <<kind, input_file, output_file, pretty_print, inputs, file,
                   stdout, data, pos, list, err>>

\* Serialize that does not wait for the reader to be exhausted: the list
\* decoded so far is converted.
SerializeEarly ==
    /\ pc = "deserialize"
    /\ pos <= Len(data.rows)
    /\ json_out' = to_string(kind, list, pretty_print)
    /\ pc' = "write"
    /\ UNCHANGED <<kind, input_file, output_file, pretty_print, inputs, file,
                   stdout, data, pos, list, err>>

\* The reader is exhausted: the list is converted to json.
Serialize ==
    /\ pc = "deserialize"
    /\ pos = Len(data.rows)
    /\ json_out' = to_string(kind, list, pretty_print)
    /\ pc' = "write"
    /\ UNCHANGED <<kind, input_file, output_file, pretty_print, inputs, file,
                   stdout, data, pos, list, err>>

\* main: fs::write(output_path, json) or println!("{}", json).
Write ==
    /\ pc = "write"
    /\ IF output_file
       THEN file' = Written(json_out) /\ UNCHANGED stdout
       ELSE stdout' = Append(stdout, Printed(json_out)) /\ UNCHANGED file
    /\ pc' = "done"
    /\ UNCHANGED <<kind, input_file, output_file, pretty_print, inputs,
                   data, pos, list, json_out, err>>

\* main: fs::write(output_path, json)? fails.  fs::write creates or empties
\* the file and then writes: when the file cannot be opened it is left as it
\* was, and when the writing fails it is left created or emptied.
WriteFail ==
    /\ pc = "write"
    /\ output_file
    /\ file' \in {file, Truncated}
    /\ err' = Error("Io", "output_file", <<>>, 0, 0)
    /\ pc' = "write_failed"
    /\ UNCHANGED <<kind, input_file, output_file, pretty_print, inputs,
                   stdout, data, pos, list, json_out>>

Next ==
    ReadText \/ ReadTextFail \/ NextRecord \/ Serialize \/ Write \/ WriteFail

Spec == Init /\ [][Next]_vars

\* ------------------------------------------- runs over one column's texts

\* Runs whose one row holds any short text in a bool_from_str column, and
\* that write compactly over an existing file.
InitBool ==
    /\ kind \in {k \in RequestType : ColumnsOf(k, "bool_from_str") # {}}
    /\ input_file = TRUE
    /\ output_file = TRUE
    /\ pretty_print = FALSE
    /\ inputs = "bool"
    /\ file = Old
    /\ Start

SpecBool == InitBool /\ [][Next]_vars

\* Runs whose one row holds any short text in a keywords column.
InitVec ==
    /\ kind \in {k \in RequestType : ColumnsOf(k, "vec_string_from_string") # {}}
    /\ input_file \in BOOLEAN
    /\ output_file = TRUE
    /\ pretty_print = FALSE
    /\ inputs = "vec"
    /\ file = Old
    /\ Start

SpecVec == InitVec /\ [][Next]_vars

\* ------------------------------------------------ vocabulary of the claims

Converted == pc \in {"write", "done"}
Failed == pc = "failed"
\* The conversion has ended, one way or the other, on text it did read.
Ended == Converted \/ (Failed /\ err.kind # "Io")

NoDocumentPrinted == \A i \in 1..Len(stdout) : ~stdout[i].doc.present
NothingWritten == file \in {Absent, Old} /\ NoDocumentPrinted

Rows == data.rows
Header == data.header

\* The first column of the header with the given name, or 0.
ColumnAt(name) ==
    IF \E i \in 1..Len(Header) : Header[i] = name
    THEN CHOOSE i \in 1..Len(Header) :
            Header[i] = name /\ \A h \in 1..(i - 1) : Header[h] # name
    ELSE 0

FieldsOf(rules) == {j \in 1..Arity(kind) : Schema(kind)[j].rule \in rules}
OptionRules == {"Option<i32>", "Option<u32>", "Option<f64>"}

\* The text is a number of the field's type.
Numeric(rule, tok) ==
    CASE rule = "Option<i32>" -> ParseInt(tok, TRUE).ok
      [] rule = "Option<u32>" -> ParseInt(tok, FALSE).ok
      [] rule \in {"Option<f64>", "f64"} -> ParseF64(tok).ok

RowDecodes(r) == DeserializeRecord(kind, Header, Rows[r]).ok

\* The data rows whose field count is not the header's.
OffWidth == {r \in 1..Len(Rows) : Len(Rows[r]) # Len(Header)}

IsYes(tok) ==
    Len(tok) = 3 /\ tok[1] \in {"y", "Y"} /\ tok[2] \in {"e", "E"}
                 /\ tok[3] \in {"s", "S"}
IsNo(tok) == Len(tok) = 2 /\ tok[1] \in {"n", "N"} /\ tok[2] \in {"o", "O"}

\* ------------------------------------------------------------------ claims

\* C1 as stated: whenever a data row's field count differs from the kind's
\* fixed arity, the conversion ends with a schema-width error and without a
\* document, whatever the header's column count.
C1_WidthAgainstArity ==
    (Ended /\ \E r \in 1..Len(Rows) : Len(Rows[r]) # Arity(kind))
        => (Failed /\ err.kind = "UnequalLengths" /\ json_out = NoDocument)

\* C1 as amended: whenever a data row's field count differs from the header
\* row's, the conversion fails without a document; the first such row, when
\* no row before it fails, gives an unequal-lengths error that names the
\* header's count as expected.  A conversion never fails on width when every
\* row is as wide as the header.
C1_WidthAgainstHeader ==
    /\ (Ended /\ OffWidth # {}) =>
            /\ Failed /\ json_out = NoDocument /\ NothingWritten
            /\ LET first == CHOOSE r \in OffWidth : \A q \in OffWidth : r <= q
               IN  (\A q \in 1..(first - 1) : RowDecodes(q)) =>
                        /\ pos = first - 1
                        /\ err = Error("UnequalLengths", "", <<>>,
                                       Len(Header), Len(Rows[first]))
    /\ (Ended /\ OffWidth = {}) => err.kind # "UnequalLengths"

\* C1's case: a row with exactly the kind's field count is refused because
\* the header is wider.
C1_Witness ==
    /\ Failed /\ err.kind = "UnequalLengths"
    /\ Len(Rows[pos + 1]) = Arity(kind)
    /\ Len(Header) = Arity(kind) + 1

\* C2 as stated: an empty or non-numeric text in an optional numeric field
\* decodes to an absent value and never fails the run.
C2_OptionalNeverFatal ==
    ~(/\ Failed /\ err.kind \in {"ParseInt", "ParseFloat"}
      /\ FieldIndex(Schema(kind), err.field) \in FieldsOf(OptionRules))

\* C2 as amended: in an optional numeric field an empty text decodes to an
\* absent value and the row succeeds, and a row is decoded only when each of
\* its non-empty optional fields is a number of the field's type; any other
\* non-empty text is a parse error that ends the run.  (The list changes
\* only while pc = "deserialize", so its rows are looked at there.)
C2_OptionalEmptyAbsent ==
    /\ \A r \in 1..Len(list) : \A j \in FieldsOf(OptionRules) :
        pc = "deserialize" =>
            LET i == ColumnAt(Schema(kind)[j].name)
            IN  IF i = 0 THEN list[r][j] = None
                ELSE /\ (Rows[r][i] = <<>>) <=> (list[r][j] = None)
                     /\ Rows[r][i] # <<>> => Numeric(Schema(kind)[j].rule, Rows[r][i])
    /\ \A j \in FieldsOf(OptionRules) :
            (Failed /\ err.kind \in {"ParseInt", "ParseFloat"}
                    /\ err.field = Schema(kind)[j].name)
                => /\ err.text # <<>>
                   /\ ~Numeric(Schema(kind)[j].rule, err.text)
                   /\ err.text = Rows[pos + 1][ColumnAt(err.field)]
                   /\ NothingWritten

\* C2's case: a finished run one of whose rows has an empty optional numeric
\* field, decoded as absent.
C2_Witness ==
    /\ pc = "done"
    /\ \E r \in 1..Len(list) : \E j \in FieldsOf(OptionRules) :
            /\ ColumnAt(Schema(kind)[j].name) # 0
            /\ Rows[r][ColumnAt(Schema(kind)[j].name)] = <<>>
            /\ list[r][j] = None

FieldText(r, j) == Rows[r][ColumnAt(Schema(kind)[j].name)]

\* C4: bool_from_str maps every text equal to "yes" ignoring letter case
\* to true and every text equal to "no" ignoring letter case to false, in
\* Airport.scheduled_service, Runway.lighted and Runway.closed: such a text
\* is never refused.
C4_YesNoIgnoringCase ==
    /\ \A r \in 1..Len(list) : \A j \in FieldsOf({"bool_from_str"}) :
            /\ IsYes(FieldText(r, j)) => list[r][j] = BoolVal(TRUE)
            /\ IsNo(FieldText(r, j)) => list[r][j] = BoolVal(FALSE)
    /\ (Failed /\ err.kind = "InvalidValue") =>
            LET tok == Rows[pos + 1][ColumnAt(err.field)]
            IN  ~IsYes(tok) /\ ~IsNo(tok)

\* C4's case: a finished run whose row says "YES" in a boolean column,
\* decoded as true, and one whose row says "No", decoded as false.
C4_Witness ==
    /\ pc = "done"
    /\ \E j \in FieldsOf({"bool_from_str"}) :
            /\ FieldText(1, j) = <<"Y", "E", "S">>
            /\ list[1][j] = BoolVal(TRUE)

IsBoolText(tok) ==
    IsYes(tok) \/ IsNo(tok) \/ tok = <<"1">> \/ tok = <<"0">>

Commas(tok) == {i \in 1..Len(tok) : tok[i] = ","}
PieceStart(tok, n) ==
    IF n = 1 THEN 1
    ELSE 1 + CHOOSE i \in Commas(tok) :
                Cardinality({h \in Commas(tok) : h <= i}) = n - 1
PieceEnd(tok, n) ==
    IF n = Cardinality(Commas(tok)) + 1 THEN Len(tok)
    ELSE (CHOOSE i \in Commas(tok) :
                Cardinality({h \in Commas(tok) : h <= i}) = n) - 1

\* s is the text p without the spaces at its two ends.
IsTrimOf(s, p) ==
    LET inked == {i \in 1..Len(p) : p[i] # " "}
    IN  IF inked = {} THEN s = <<>>
        ELSE s = SubSeq(p, CHOOSE i \in inked : \A h \in inked : i <= h,
                           CHOOSE i \in inked : \A h \in inked : i >= h)

\* C6: vec_string_from_string splits a keywords field on commas: the empty
\* text gives the empty list, any other text gives its comma-separated
\* pieces in input order, each without leading and trailing whitespace
\* ("a, b" gives ["a", "b"]); the decoding never fails.
C6_KeywordsSplitTrimmed ==
    /\ \A r \in 1..Len(list) : \A j \in FieldsOf({"vec_string_from_string"}) :
            LET tok == FieldText(r, j)
                l   == list[r][j].l
            IN  /\ list[r][j].t = "Vec"
                /\ tok = <<>> => l = <<>>
                /\ tok # <<>> =>
                    /\ Len(l) = Cardinality(Commas(tok)) + 1
                    /\ \A n \in 1..Len(l) :
                         IsTrimOf(l[n], SubSeq(tok, PieceStart(tok, n),
                                                    PieceEnd(tok, n)))
                /\ tok = <<"a", ",", " ", "b">> => l = << <<"a">>, <<"b">> >>
    /\ Failed =>
            \/ err.kind = "Io"
            \/ err.field \notin {Schema(kind)[j].name :
                                    j \in FieldsOf({"vec_string_from_string"})}

\* C6's case: a finished run whose keywords field "a, b" was decoded as
\* the list "a", "b".
C6_Witness ==
    /\ pc = "done"
    /\ \E j \in FieldsOf({"vec_string_from_string"}) :
            /\ FieldText(1, j) = <<"a", ",", " ", "b">>
            /\ list[1][j].l = << <<"a">>, <<"b">> >>

\* C7: the list decoded from a keywords field is never the list whose only
\* element is the empty text, and a field that is empty or all whitespace
\* gives the empty list.
C7_NoLoneEmptyKeyword ==
    \A r \in 1..Len(list) : \A j \in FieldsOf({"vec_string_from_string"}) :
        /\ list[r][j].l # << <<>> >>
        /\ (\A i \in 1..Len(FieldText(r, j)) : FieldText(r, j)[i] = " ")
                => list[r][j].l = <<>>

\* The rows decoded so far are the first rows of the input, in order.
ListFollowsRows ==
    /\ Len(list) = pos
    /\ pos <= Len(Rows)
    /\ \A r \in 1..Len(list) :
            list[r][1] = StrVal(Rows[r][ColumnAt("id")])

\* C8: the run is all-or-nothing.  When the decoding of a row fails, the run
\* ends with the error and no part of the document reaches the destination:
\* the --output file is neither created nor modified and nothing of the
\* document is printed.  No row is skipped: a document exists only when
\* every row of the input was decoded, and nothing is written before then.
C8_AllOrNothing ==
    /\ Failed => /\ err # NoError
                 /\ json_out = NoDocument
                 /\ NothingWritten
    /\ pc \notin {"done", "write_failed"} => NothingWritten
    /\ Converted => Len(list) = Len(Rows) /\ err = NoError
    /\ pc = "write" => \A r \in 1..Len(Rows) : RowDecodes(r)
    /\ ListFollowsRows

\* C8's case: a run told to write over an existing file has failed on a row
\* after decoding an earlier row, and the file is as it was.
C8_Witness ==
    /\ Failed /\ output_file /\ file = Old
    /\ Len(list) >= 1
    /\ err.kind \in {"UnequalLengths", "ParseFloat", "InvalidValue"}

\* C9: when every row decodes, the document is a list with exactly one
\* entry per data row, in input row order, and none for the header row: a
\* header and two data rows give two entries, a header alone gives none.
C9_OneEntryPerRow ==
    Converted =>
        /\ json_out.present
        /\ Len(json_out.entries) = Len(Rows)
        /\ \A r \in 1..Len(Rows) :
                /\ json_out.entries[r][1].name = "id"
                /\ json_out.entries[r][1].value =
                        Json("string", Rows[r][ColumnAt("id")], FALSE, <<>>)
        /\ pc = "done" =>
                IF output_file THEN file = Written(json_out)
                ELSE stdout[Len(stdout)] = Printed(json_out)

\* C9's case: a finished run over a header and two different data rows,
\* whose document has two entries.
C9_Witness ==
    /\ pc = "done"
    /\ Len(Rows) = 2 /\ Rows[1] # Rows[2]
    /\ Len(json_out.entries) = 2

\* C10: every entry of the document has exactly the fields of its kind's
\* struct, in declaration order (18 for an Airport), whatever the row holds
\* and however the header orders its columns: a field whose value is absent
\* is in the entry, with the value null.
C10_EveryFieldPresent ==
    Converted =>
        \A r \in 1..Len(json_out.entries) :
            /\ Len(json_out.entries[r]) = Arity(kind)
            /\ kind = "Airport" => Len(json_out.entries[r]) = 18
            /\ \A j \in 1..Arity(kind) :
                /\ json_out.entries[r][j].name = Schema(kind)[j].name
                /\ list[r][j] = None => json_out.entries[r][j].value = JsonNull
                /\ list[r][j].t = "String" =>
                        json_out.entries[r][j].value.s = list[r][j].s

\* C10's case: a finished Airport run one of whose rows has a blank
\* elevation_ft, which its entry holds as null in seventh place.
C10_Witness ==
    /\ pc = "done" /\ kind = "Airport"
    /\ \E r \in 1..Len(Rows) :
            /\ ColumnAt("elevation_ft") # 0
            /\ Rows[r][ColumnAt("elevation_ft")] = <<>>
            /\ json_out.entries[r][7] =
                    [name |-> "elevation_ft", value |-> JsonNull]

\* C11 as stated: for every record kind and every row that decodes, the
\* record, serialized as a single-record list and decoded again by the
\* struct's own Deserialize, is read back without error and equal to the
\* original in every field.
C11_RoundTrip ==
    pc = "write" =>
        \A r \in 1..Len(list) : RoundTrip(kind, list[r]) = RowOk(list[r])

\* The records of a table's rows, each decoded on its own.
RecordsOf(k, table) ==
    [r \in 1..Len(table.rows) |->
        DeserializeRecord(k, table.header, table.rows[r]).rec]

\* C12: serialization is deterministic.  The document a run produces is the
\* one value that the serializer gives for the run's record list, record
\* kind and pretty-print flag, the list is the one value the decoder gives
\* for the input text, and what reaches the file or the standard output is
\* that document: two runs with the same input, kind and flag cannot end
\* with different documents.  (The list and the document are complete, and
\* change no more, once pc is "write": they are compared with the input
\* there.)
C12_Deterministic ==
    /\ pc = "write" =>
            /\ json_out = to_string(kind, list, pretty_print)
            /\ list = RecordsOf(kind, data)
    /\ pc \in {"done", "write_failed"} =>
            /\ json_out.present /\ json_out.pretty = pretty_print
            /\ Len(json_out.entries) = Len(data.rows)
    /\ pc = "done" =>
            IF output_file THEN file = Written(json_out)
            ELSE stdout[Len(stdout)] = Printed(json_out)

\* C12's case: a run over two rows has written its document, two entries,
\* to the file.
C12_Witness ==
    /\ pc = "done" /\ output_file
    /\ Len(list) = 2
    /\ file = Written(to_string(kind, RecordsOf(kind, data), pretty_print))
    /\ Len(file.doc.entries) = 2

\* What a conversion comes to when its rows decode as in lines: the error
\* of the first row that does not decode, or the entries of the records.
OutcomeOf(k, lines) ==
    LET failing == {r \in 1..Len(lines) : ~lines[r].ok}
    IN  IF failing # {}
        THEN [ok |-> FALSE, entries |-> <<>>, err |-> lines[FirstOf(failing)].err]
        ELSE [ok |-> TRUE, err |-> NoError,
              entries |-> [r \in 1..Len(lines) |->
                             SerializeStruct(k, lines[r].rec)]]

\* What a conversion of the table comes to, whatever the pretty-print flag.
Outcome(k, table) ==
    CHOOSE o \in {OutcomeOf(k, lines) :
                    lines \in {[r \in 1..Len(table.rows) |->
                                DeserializeRecord(k, table.header,
                                                  table.rows[r])]}} : TRUE

\* C13: the pretty-print flag changes only the encoding.  Whether a
\* conversion succeeds, the error it fails with, and the entries of its
\* document (their number and order, and each entry's members, member order
\* and values) are fixed by the input and the record kind alone, so the run
\* with the flag set and the run with it clear agree on them; the flag
\* decides only the document's form, and the pretty and the compact
\* document of one list hold the same entries.  (A conversion has come to
\* its result when pc is "write" or, failing on a row, "failed": the result
\* is compared with the outcome there, and is the same from then on.)
C13_PrettyOnlyEncoding ==
    /\ (pc = "write" \/ (Failed /\ err.kind # "Io")) =>
        \A o \in {Outcome(kind, data)} :
            IF o.ok
            THEN /\ Converted
                 /\ json_out.entries = o.entries
                 /\ json_out.pretty = pretty_print
            ELSE /\ Failed /\ err = o.err
                 /\ json_out = NoDocument
    /\ pc \in {"done", "write_failed"} =>
            /\ json_out.pretty = pretty_print
            /\ Len(json_out.entries) = Len(list)
    /\ pc = "write" =>
            to_string(kind, list, TRUE).entries
                = to_string(kind, list, FALSE).entries

\* C13's case: a pretty-printing run has ended with a document whose entry
\* has a null member.
C13_Witness ==
    /\ pc = "done" /\ pretty_print /\ json_out.pretty
    /\ Len(list) >= 1
    /\ \E j \in 1..Arity(kind) :
            /\ list[1][j] = None
            /\ json_out.entries[1][j].value = JsonNull

\* C14 as stated: the header's texts have no effect and the fields of a
\* row are coerced by position, in schema order, so a run over a header of
\* as many cells as the kind has fields ends as the run over the same rows
\* under the struct's own column names does: with the same entries or with
\* the same error.
C14_HeaderIgnored ==
    (Ended /\ Len(Header) = Arity(kind)) =>
        \A o \in {Outcome(kind, Table(Columns(kind), Rows))} :
            IF o.ok THEN Converted /\ json_out.entries = o.entries
            ELSE Failed /\ err = o.err

\* The struct fields that no column of the header names.
Unnamed == {j \in 1..Arity(kind) : ColumnAt(Schema(kind)[j].name) = 0}

\* C14 as amended: the header row is no record, but its texts name the
\* columns.  Each field of a record is coerced from the column whose header
\* text is the field's serde name, wherever that column stands, and is
\* absent when the field is optional and no column has its name; a column
\* whose text names no field is not read.  A header that lacks the name of
\* a field that is not optional ends the run at the first data row with a
\* missing-field error, and a header with a field's name twice ends it with
\* a duplicate-field error.  (The list grows no more once pc is "write" or
\* "failed": its records are looked at there.)
C14_ColumnsByName ==
    /\ pc \in {"write", "failed"} =>
        \A j \in 1..Arity(kind) : \A i \in {ColumnAt(Schema(kind)[j].name)} :
            \A r \in 1..Len(list) :
                list[r][j] =
                    IF i = 0 THEN None
                    ELSE DecodeField(Schema(kind)[j].rule, Rows[r][i]).val
    /\ (Ended /\ Len(Rows) >= 1
              /\ \E j \in Unnamed : ~IsOptionRule(Schema(kind)[j].rule))
            => Failed /\ json_out = NoDocument
    /\ (Failed /\ err.kind = "MissingField") =>
            /\ FieldIndex(Schema(kind), err.field) \in Unnamed
            /\ ~IsOptionRule(Schema(kind)[FieldIndex(Schema(kind), err.field)].rule)
            /\ list = <<>>
    /\ (Failed /\ err.kind = "DuplicateField") =>
            /\ Cardinality({i \in 1..Len(Header) : Header[i] = err.field}) >= 2
            /\ list = <<>>

\* C14's case: under a header with two columns exchanged, a finished run
\* has read a field from the column that has its name, and not from the
\* column at the field's place in the struct.
C14_Witness ==
    /\ pc = "done" /\ Len(list) >= 1
    /\ \E j \in 1..Arity(kind) :
            /\ ColumnAt(Schema(kind)[j].name) \notin {0, j}
            /\ list[1][j] = DecodeField(Schema(kind)[j].rule, FieldText(1, j)).val
            /\ list[1][j] # DecodeField(Schema(kind)[j].rule, Rows[1][j]).val

\* The run is over.
Over == pc \in {"done", "failed", "write_failed"}

\* The document has reached its destination whole.
DocumentWritten ==
    /\ json_out.present
    /\ Len(json_out.entries) = Len(Rows)
    /\ IF output_file THEN file = Written(json_out) /\ NoDocumentPrinted
       ELSE /\ stdout[Len(stdout)] = Printed(json_out)
            /\ \A i \in 1..(Len(stdout) - 1) : ~stdout[i].doc.present

PhaseStep ==
    /\ <<pc, pc'>> \in {<<"read_text", "deserialize">>, <<"read_text", "failed">>,
                        <<"deserialize", "deserialize">>,
                        <<"deserialize", "failed">>, <<"deserialize", "write">>,
                        <<"write", "done">>, <<"write", "write_failed">>}
    /\ data' # data => pc = "read_text"
    /\ pc # "read_text" => /\ stdout[1].text \in {"Reading file", "Downloading from"}
                           /\ data' = data
    /\ list' # list => pc = "deserialize" /\ pc' = "deserialize"
    /\ (pc = "deserialize" /\ pc' = "deserialize") =>
            \A line \in {DeserializeRecord(kind, Header, Rows[pos + 1])} :
                /\ line.ok
                /\ pos' = pos + 1
                /\ list' = Append(list, line.rec)
    /\ (pc = "deserialize" /\ pc' = "failed") =>
            /\ pos < Len(Rows)
            /\ ~DeserializeRecord(kind, Header, Rows[pos + 1]).ok
            /\ pos' = pos /\ list' = list
    /\ json_out' # json_out => pc = "deserialize" /\ pc' = "write"
    /\ pc' = "write" =>
            /\ pos = Len(Rows) /\ Len(list) = Len(Rows)
            /\ json_out' = to_string(kind, list, pretty_print)
            /\ list' = list
    /\ (file' # file \/ Len(stdout') > Len(stdout)) =>
            pc \in {"read_text", "write"}
    /\ pc = "read_text" => file' = file
    /\ pc' = "done" => DocumentWritten'

\* How a run can be over, and that a run goes on until it is: a run that
\* is not over can take a step.  (At read_text the read can fail, so the
\* tables it may succeed with need not be gone through; NextRecord has no
\* condition but its place in the run and a row left to read.)
RunEnds ==
    /\ \/ Over
       \/ pc = "deserialize" /\ pos < Len(Rows)
       \/ ENABLED (ReadTextFail \/ Serialize \/ Write)
    /\ pc = "done" => err = NoError /\ DocumentWritten
    /\ pc = "failed" => err # NoError /\ json_out = NoDocument /\ NothingWritten
    /\ pc = "write_failed" =>
            /\ err.kind = "Io" /\ output_file
            /\ json_out.present /\ Len(list) = Len(Rows)
            /\ file \in {Absent, Old, Truncated}
            /\ NoDocumentPrinted

====
